---- MODULE Spec2Model ----
(***************************************************************************)
(* Session lifecycle and authorization of the backend (backend/app/api).   *)
(*                                                                         *)
(* Part 1 (Spec) models the session store (Redis keys session:<id>), the   *)
(* OAuth callback, logout and the get_current_user dependency with its     *)
(* inline credential refresh.  The awaits of get_current_user that touch   *)
(* the store or the identity provider are separate steps, so that          *)
(* concurrent requests interleave where the asyncio tasks can.             *)
(*                                                                         *)
(* Part 2 (TenantSpec) models the guild-scoped handlers of api/guilds.py   *)
(* on the guilds, authorized_users, guild_settings and audit_logs tables,  *)
(* called with the dictionary get_current_user returned.                   *)
(*                                                                         *)
(* Part 3 (ResolveSpec) models the handlers that compute the permission    *)
(* level of a caller on a guild, over the tables a guild may have.         *)
(*                                                                         *)
(* Part 4 (SnapshotSpec) models the user_guilds:<id> cache written by      *)
(* list_guilds and read by the fallback of get_guild.                      *)
(***************************************************************************)
EXTENDS Integers, Sequences, FiniteSets, Bags, TLC

----------------------------------------------------------------------------
(* Bounds of the model *)

MaxCallers == 2
MaxTokens == 1
MaxIssued == 1
MaxElapsed == 400
StartTime == 100000
MaxGuilds == 1
MaxUsers == 2
MaxAudit == 2
(* Offset of the server's local time from UTC, in seconds *)
LocalOffset == 3600

(* Program constants *)

MarginSeconds == 300
DefaultExpiresIn == 604800

Tokens == 1..MaxTokens

(* Seconds the clock may advance in one step *)
TickSteps == {400}
(* expires_in values the identity provider may answer with, besides omitting it *)
ExpiresInValues == {0, 300}
(* Status codes the token endpoint may answer with *)
StatusCodes == {200, 400, 429}
(* What the Authorization header of a request may hold *)
Headers == {"none", "bearer", "bot", "badbot"}

(* Python's None and a present value *)
None == << >>
Some(v) == << v >>

----------------------------------------------------------------------------
VARIABLES
    now,        \* datetime.utcnow(), seconds
    sessions,   \* Redis: session:<id> -> None | Some(session data)
    next_token, \* the next uuid4 session id
    issued,     \* credentials handed out so far by the identity provider
    tasks,      \* bag of get_current_user calls that entered the refresh
    rejected,   \* (observer) sessions deleted after a rejected refresh of an
                \* already expired credential
    guilds,            \* table guilds: id -> None | Some(row)
    authorized_users,  \* table authorized_users: set of rows
    guild_settings,    \* table guild_settings: guild id -> None | Some(row)
    audit_logs,        \* table audit_logs, in insertion order
    response,          \* (observer) the answer to the last guild request
    authorized_roles,  \* table authorized_roles: set of rows
    user_guilds,       \* Redis: user_guilds:<user id> -> None | Some(entry)
    fetches            \* list_guilds calls between their cache miss and their setex

session_vars == << now, sessions, next_token, issued, tasks, rejected >>
tenant_vars == << guilds, authorized_users, guild_settings, audit_logs, response >>
lookup_vars == << authorized_roles, user_guilds, fetches >>
vars == << now, sessions, next_token, issued, tasks, rejected,
           guilds, authorized_users, guild_settings, audit_logs, response,
           authorized_roles, user_guilds, fetches >>

----------------------------------------------------------------------------
(* Conversions between naive datetimes and float timestamps *)

\* datetime.datetime.fromtimestamp(ts): naive LOCAL time of a timestamp
FromTimestamp(ts) == ts + LocalOffset

\* naive_datetime.timestamp(): a naive datetime is read as LOCAL time
Timestamp(dt) == dt - LocalOffset

\* token_data.get("expires_in", 604800)
GetExpiresIn(ei) == IF ei = None THEN DefaultExpiresIn ELSE ei[1]

\* the session data written by callback_discord; issued_by (observer) names
\* the identity-provider answer the expiry was computed from
SessionData(access_token, refresh_token, token_expires_at) ==
    [ access_token |-> access_token,
      refresh_token |-> refresh_token,
      expires_at |-> Some(Timestamp(token_expires_at)),
      issued_by |-> access_token ]

\* a session stored before expires_at was recorded
LegacySession ==
    [access_token |-> 0, refresh_token |-> Some(0), expires_at |-> None, issued_by |-> 0]

\* Seconds left, at the start, to the expiry of a session created by an
\* earlier callback_discord: expired 10 s ago, inside the margin, far away
InitialRemaining == {0 - 10, 200, DefaultExpiresIn}

\* the sessions an earlier run of callback_discord or get_current_user
\* may have left under a token
EarlierSessions ==
    {LegacySession} \cup {SessionData(0, Some(0), StartTime + d) : d \in InitialRemaining}

----------------------------------------------------------------------------
(* get_current_user: locals of one request *)

IdleCall ==
    [ pc |-> "idle",
      header |-> "none",
      session_id |-> 0,
      user_data |-> None,
      expires_at |-> None,
      refresh_token |-> None,
      status_code |-> 0,
      expires_in |-> None,
      result |-> "" ]

\* `if expires_at:` - None and 0.0 are both falsy
Truthy(opt) == opt # None /\ opt[1] # 0

\* mutant: a legacy session (no expiry, refresh token present) is refreshed too
ShouldRefreshLegacy(expires_at, refresh_token, utcnow) ==
    \/ expires_at = None /\ refresh_token # None
    \/ Truthy(expires_at) /\ utcnow > FromTimestamp(expires_at[1]) - MarginSeconds

\* should_refresh, lines 64-74
ShouldRefresh(expires_at, refresh_token, utcnow) ==
    Truthy(expires_at) /\ utcnow > FromTimestamp(expires_at[1]) - MarginSeconds

----------------------------------------------------------------------------
(* The exceptions raised inside the try block of get_current_user.  All of *)
(* them derive from Exception, which is what `except Exception` catches.   *)

ExceptionClasses == {"HTTPException", "RequestError", "RedisError", "SQLAlchemyError"}

\* lines 121-126: `except Exception as e: ... pass`, then `return user_data`
ResultAfterRaise(exc) == IF exc \in ExceptionClasses THEN "user" ELSE "401"

\* mutant: the refresh token of the answer is not copied into user_data
UpdateUserDataKeepRefresh(user_data, new_access_token, new_refresh_token, new_expires_at) ==
    [ user_data EXCEPT !.access_token = new_access_token,
                       !.expires_at = Some(Timestamp(new_expires_at)),
                       !.issued_by = new_access_token ]

\* lines 97-99: the three assignments to user_data
UpdateUserData(user_data, new_access_token, new_refresh_token, new_expires_at) ==
    [ user_data EXCEPT !.access_token = new_access_token,
                       !.refresh_token = new_refresh_token,
                       !.expires_at = Some(Timestamp(new_expires_at)),
                       !.issued_by = new_access_token ]

\* line 102: redis.setex(key, ttl, json.dumps(user_data)) replaces the value
Setex(store, key, value) == [store EXCEPT ![key] = Some(value)]

\* redis.delete(key)
Delete(store, key) == [store EXCEPT ![key] = None]

\* mutant: a failed read of the store is taken for a missing session
SessionReadNoneOnOutage(up, store, sid) ==
    IF up THEN [error |-> FALSE, data |-> store[sid]]
    ELSE [error |-> FALSE, data |-> None]

\* line 46: redis.get raises (ConnectionError) when the server is unreachable
SessionRead(up, store, sid) ==
    IF up THEN [error |-> FALSE, data |-> store[sid]]
    ELSE [error |-> TRUE, data |-> None]

\* the bag of calls with call x replaced by its next position y
Put(x, y) == (tasks (-) SetToBag({x})) (+) SetToBag({y})

\* a call that has returned (or ended in an error response): its frame is
\* gone, what is left is the value returned and, for the record, the status
\* the identity provider answered with
Returned(x, res) ==
    [x EXCEPT !.pc = "done", !.result = res,
              !.expires_at = None, !.refresh_token = None, !.expires_in = None]

\* lines 17-76 of get_current_user, up to the first await of the refresh:
\* the call as it returns, or as it is suspended in client.post (pc = "post")
Resolve(header, sid, redis_up) ==
    LET x == [IdleCall EXCEPT !.header = header]
    IN  CASE header = "bot" -> Returned(x, "system")
          [] header \in {"none", "badbot"} -> Returned(x, "401")
          [] OTHER ->
               LET read == SessionRead(redis_up, sessions, sid)
                   y == [x EXCEPT !.session_id = sid]
               IN  IF read.error THEN Returned(y, "500")
                   ELSE IF read.data = None THEN Returned(y, "401")
                   ELSE LET user_data == read.data[1]
                            z == [y EXCEPT !.user_data = Some(user_data),
                                           !.expires_at = user_data.expires_at,
                                           !.refresh_token = user_data.refresh_token]
                        IN  IF ShouldRefresh(z.expires_at, z.refresh_token, now)
                               /\ z.refresh_token # None
                            THEN [z EXCEPT !.pc = "post"]
                            ELSE Returned(z, "user")

----------------------------------------------------------------------------
(* Guild tables and the callers of the guild handlers *)

GuildIds == 1..MaxGuilds
\* Discord user ids (snowflakes, never 0)
UserIds == 1..MaxUsers
\* Discord role ids (the role whose id is the guild id is @everyone)
RoleIds == {11, 12}

\* deps.py lines 29-36: the synthetic user returned for the Bot token
SystemUser == [user_id |-> 0, system |-> TRUE]

\* the session JSON written by callback_discord has no "system" key, so
\* current_user.get("system") is None (falsy)
SessionUser(user_id) == [user_id |-> user_id, system |-> FALSE]

CurrentUsers == {SystemUser} \cup {SessionUser(u) : u \in UserIds}

\* models.py PermissionLevel values stored in authorized_users rows
PermissionLevels == {"admin", "user"}

\* settings_json: of each key, None (absent) or Some(value)
SettingsBlobs ==
    [ level_2_allow_everyone : {None, Some(TRUE), Some(FALSE)},
      level_2_roles : {None, Some({11})},
      model : {None, Some("m")} ]

\* GuildSettings(guild_id=guild_id, settings_json={})
EmptySettings == [level_2_allow_everyone |-> None, level_2_roles |-> None, model |-> None]

\* dict.get(key, default)
Get(opt, default) == IF opt = None THEN default ELSE opt[1]

NoResponse ==
    [op |-> "", user_id |-> 0, system |-> FALSE, guild_id |-> 0, status |-> 0,
     permission_level |-> "", detail |-> ""]

\* no role is authorized, nothing is cached and no listing is under way
LookupIdle ==
    /\ authorized_roles = {}
    /\ user_guilds = [u \in UserIds |-> None]
    /\ fetches = {}

\* no guild request has been made and the tables are empty
TenantIdle ==
    /\ guilds = [g \in GuildIds |-> None]
    /\ authorized_users = {}
    /\ guild_settings = [g \in GuildIds |-> None]
    /\ audit_logs = << >>
    /\ response = NoResponse

----------------------------------------------------------------------------
Init ==
    /\ now = StartTime
    /\ \E earlier \in {None} \cup {Some(e) : e \in EarlierSessions} :
          /\ sessions = [t \in Tokens |-> IF t = 1 THEN earlier ELSE None]
          /\ next_token = IF earlier = None THEN 1 ELSE 2
    /\ issued = 0
    /\ tasks = EmptyBag
    /\ rejected = {}
    /\ TenantIdle
    /\ LookupIdle

----------------------------------------------------------------------------
(* auth.py callback_discord: the code exchange creates the session *)

callback_discord(status_code, has_refresh, expires_in, db_ok, redis_up) ==
    /\ next_token <= MaxTokens
    /\ issued < MaxIssued
    /\ IF status_code # 200
       THEN \* lines 126-134: the exchange failed, nothing is stored
            /\ has_refresh /\ expires_in = None /\ db_ok /\ redis_up
            /\ UNCHANGED << sessions, next_token, issued >>
       ELSE LET access_token == issued + 1
                refresh_token == IF has_refresh THEN Some(issued + 1) ELSE None
                token_expires_at == now + GetExpiresIn(expires_in)
            IN  /\ issued' = issued + 1
                /\ IF ~db_ok
                   THEN \* line 185: commit raises, the request ends 500
                        /\ redis_up
                        /\ UNCHANGED << sessions, next_token >>
                   ELSE /\ IF redis_up
                           THEN \* lines 188-199
                                /\ sessions' = Setex(sessions, next_token,
                                     SessionData(access_token, refresh_token, token_expires_at))
                                /\ next_token' = next_token + 1
                           ELSE UNCHANGED << sessions, next_token >>
    /\ UNCHANGED << now, tasks, rejected >>
    /\ UNCHANGED tenant_vars
    /\ UNCHANGED lookup_vars

(* auth.py logout: deletes whatever session the cookie names *)
logout(session_id, redis_up) ==
    /\ sessions' = IF redis_up THEN Delete(sessions, session_id) ELSE sessions
    /\ UNCHANGED << now, next_token, issued, tasks, rejected >>
    /\ UNCHANGED tenant_vars
    /\ UNCHANGED lookup_vars

----------------------------------------------------------------------------
(* deps.py get_current_user *)

\* lines 17-76: header parsing, the session read and the refresh decision.
\* A call that returns from these lines has read the store and changed
\* nothing; a call that refreshes is suspended in client.post (line 87).
get_current_user(header, sid, redis_up) ==
    /\ LET x == Resolve(header, sid, redis_up)
       IN  IF x.pc = "post"
           THEN /\ BagCardinality(tasks) < MaxCallers
                /\ tasks' = tasks (+) SetToBag({x})
           ELSE UNCHANGED tasks
    /\ UNCHANGED << now, sessions, next_token, issued, rejected >>
    /\ UNCHANGED tenant_vars
    /\ UNCHANGED lookup_vars

\* line 87 raises (httpx.RequestError): lines 121-126
RefreshNetworkError(x) ==
    /\ BagIn(x, tasks) /\ x.pc = "post"
    /\ tasks' = Put(x, Returned([x EXCEPT !.status_code = 0 - 1],
                                  ResultAfterRaise("RequestError")))
    /\ UNCHANGED << now, sessions, next_token, issued, rejected >>
    /\ UNCHANGED tenant_vars
    /\ UNCHANGED lookup_vars

\* lines 89-99: the token endpoint answers 200
RefreshResponse(x, has_refresh, expires_in) ==
    /\ BagIn(x, tasks) /\ x.pc = "post"
    /\ issued < MaxIssued
    /\ LET new_access_token == issued + 1
           new_refresh_token == IF has_refresh THEN Some(issued + 1) ELSE None
           new_expires_at == now + GetExpiresIn(expires_in)
           y == [x EXCEPT !.pc = "setex",
                          !.status_code = 200,
                          !.expires_in = Some(GetExpiresIn(expires_in)),
                          !.user_data = Some(UpdateUserData(x.user_data[1],
                               new_access_token, new_refresh_token, new_expires_at))]
       IN  /\ issued' = issued + 1
           /\ tasks' = Put(x, y)
    /\ UNCHANGED << now, sessions, next_token, rejected >>
    /\ UNCHANGED tenant_vars
    /\ UNCHANGED lookup_vars

\* lines 102-112: the session is overwritten; then the users row is updated,
\* which no handler modelled here reads: only whether that statement raises
\* (db_ok) is kept
RefreshStore(x, db_ok, redis_up) ==
    /\ BagIn(x, tasks) /\ x.pc = "setex"
    /\ IF redis_up
       THEN /\ sessions' = Setex(sessions, x.session_id, x.user_data[1])
            /\ IF db_ok
               THEN tasks' = Put(x, Returned(x, "user"))
               ELSE tasks' = Put(x, Returned(x, ResultAfterRaise("SQLAlchemyError")))
       ELSE /\ db_ok
            /\ UNCHANGED sessions
            /\ tasks' = Put(x, Returned(x, ResultAfterRaise("RedisError")))
    /\ UNCHANGED << now, next_token, issued, rejected >>
    /\ UNCHANGED tenant_vars
    /\ UNCHANGED lookup_vars

\* lines 114-120: the token endpoint answers another status; the session is
\* deleted and HTTPException(401) raised inside the try.  Receiving the
\* answer touches nothing shared, so it is one step with the delete.
RefreshRejected(x, status_code, redis_up) ==
    /\ BagIn(x, tasks) /\ x.pc = "post"
    /\ status_code # 200
    /\ LET y == [x EXCEPT !.status_code = status_code]
       IN  IF redis_up
           THEN /\ sessions' = Delete(sessions, x.session_id)
                /\ tasks' = Put(x, Returned(y, ResultAfterRaise("HTTPException")))
                /\ rejected' = IF status_code = 400 /\ now > FromTimestamp(x.expires_at[1])
                               THEN rejected \cup {x.session_id} ELSE rejected
           ELSE /\ UNCHANGED << sessions, rejected >>
                /\ tasks' = Put(x, Returned(y, ResultAfterRaise("RedisError")))
    /\ UNCHANGED << now, next_token, issued >>
    /\ UNCHANGED tenant_vars
    /\ UNCHANGED lookup_vars

\* line 126: `return user_data`; the request leaves get_current_user
Respond(x) ==
    /\ BagIn(x, tasks) /\ x.pc = "done"
    /\ tasks' = tasks (-) SetToBag({x})
    /\ UNCHANGED << now, sessions, next_token, issued, rejected >>
    /\ UNCHANGED tenant_vars
    /\ UNCHANGED lookup_vars

----------------------------------------------------------------------------
(* Environment *)

Tick(d) ==
    /\ now + d <= StartTime + MaxElapsed
    /\ now' = now + d
    /\ UNCHANGED << sessions, next_token, issued, tasks, rejected >>
    /\ UNCHANGED tenant_vars
    /\ UNCHANGED lookup_vars

----------------------------------------------------------------------------
ExpiresInAnswers == {None} \cup {Some(e) : e \in ExpiresInValues}

Next ==
    \/ \E sc \in {200, 400}, hr \in BOOLEAN, ei \in ExpiresInAnswers, ok \in BOOLEAN,
          up \in BOOLEAN : callback_discord(sc, hr, ei, ok, up)
    \/ \E t \in Tokens, up \in BOOLEAN : logout(t, up)
    \/ \E h \in Headers, t \in Tokens, up \in BOOLEAN :
          \* without a Bearer header neither the token nor the store is looked at
          /\ h = "bearer" \/ (t = 1 /\ up)
          /\ get_current_user(h, t, up)
    \/ \E x \in BagToSet(tasks) : RefreshNetworkError(x)
    \/ \E x \in BagToSet(tasks), hr \in BOOLEAN, ei \in ExpiresInAnswers :
          RefreshResponse(x, hr, ei)
    \/ \E x \in BagToSet(tasks), ok \in BOOLEAN, up \in BOOLEAN : RefreshStore(x, ok, up)
    \/ \E x \in BagToSet(tasks), sc \in StatusCodes, up \in BOOLEAN : RefreshRejected(x, sc, up)
    \/ \E x \in BagToSet(tasks) : Respond(x)
    \/ \E d \in TickSteps : Tick(d)
Spec == Init /\ [][Next]_vars

----------------------------------------------------------------------------
(* api/guilds.py *)

\* What discord_client answers about the developer guild (DISCORD_GUILD_ID):
\* ok = FALSE when the guild is not configured or the lookup raises;
\* developers are the members holding DEVELOPER_ROLE_ID
DevLookups ==
    {[ok |-> FALSE, owner_id |-> 0, developers |-> {}]}
       \cup {[ok |-> TRUE, owner_id |-> 1, developers |-> d] : d \in {{}, {2}}}

\* What discord_client.get_guild_member answers for the caller
\* ("not_member": the 404 of Discord, which raise_for_status raises as well)
MemberLookups ==
    {[kind |-> "error", roles |-> {}], [kind |-> "not_member", roles |-> {}],
     [kind |-> "none", roles |-> {}]}
       \cup {[kind |-> "member", roles |-> r] : r \in SUBSET RoleIds}

\* The user_guilds:<id> cache entry read by the fallback of get_guild
CachedGuilds == {None} \cup {Some(c) : c \in SUBSET GuildIds}

\* ADMIN_USER_IDS of the configuration
AdminUserIds == {2}

\* lines 272-290 (and 193-211): developer access of the caller
HasDevAccess(user_id, dev) ==
    dev.ok /\ (user_id = dev.owner_id \/ user_id \in dev.developers)

\* imported from deps.py by guilds.py and auth.py
check_is_admin(user_id, dev) ==
    user_id \in AdminUserIds \/ HasDevAccess(user_id, dev)

\* select(AuthorizedUser).where(guild_id == .., user_id == ..).scalar_one_or_none()
AuthorizedUserRow(guild_id, user_id) ==
    LET rows == {r \in authorized_users : r.guild_id = guild_id /\ r.user_id = user_id}
    IN  IF rows = {} THEN None ELSE Some(CHOOSE r \in rows : TRUE)

\* mutant: the cached guild list is used whatever level_2_allow_everyone says
Level2CacheAlways(guild_id, member, cached) ==
    LET settings == IF guilds[guild_id] # None THEN guild_settings[guild_id] ELSE None
        allow_everyone == IF settings = None THEN TRUE
                          ELSE Get(settings[1].level_2_allow_everyone, TRUE)
        allowed_roles == IF settings = None THEN {}
                         ELSE Get(settings[1].level_2_roles, {})
    IN  CASE member.kind = "member" ->
               IF allow_everyone \/ member.roles \cap allowed_roles # {}
               THEN "LEVEL_2" ELSE "PUBLIC"
          [] member.kind = "none" -> "PUBLIC"
          [] OTHER ->
               IF cached # None /\ guild_id \in cached[1]
               THEN "LEVEL_2" ELSE "PUBLIC"

\* get_guild lines 94-133: level 2 access of a guild member
Level2(guild_id, member, cached) ==
    LET settings == IF guilds[guild_id] # None THEN guild_settings[guild_id] ELSE None
        allow_everyone == IF settings = None THEN TRUE
                          ELSE Get(settings[1].level_2_allow_everyone, TRUE)
        allowed_roles == IF settings = None THEN {}
                         ELSE Get(settings[1].level_2_roles, {})
    IN  CASE member.kind = "member" ->
               IF allow_everyone \/ member.roles \cap allowed_roles # {}
               THEN "LEVEL_2" ELSE "PUBLIC"
          [] member.kind = "none" -> "PUBLIC"
          [] OTHER ->
               IF allow_everyone /\ cached # None /\ guild_id \in cached[1]
               THEN "LEVEL_2" ELSE "PUBLIC"

\* get_guild lines 70-133: the permission level reported for the caller
PermissionLevelOf(current_user, guild_id, dev, member, cached) ==
    LET user_id == current_user.user_id
        guild == guilds[guild_id]
        auth_user == AuthorizedUserRow(guild_id, user_id)
    IN  IF current_user.system \/ check_is_admin(user_id, dev) THEN "ADMIN"
        ELSE IF guild # None /\ guild[1].owner_id = user_id THEN "owner"
        ELSE IF auth_user # None THEN auth_user[1].permission_level
        ELSE Level2(guild_id, member, cached)

Answer(op, current_user, guild_id, status, permission_level) ==
    [op |-> op, user_id |-> current_user.user_id, system |-> current_user.system,
     guild_id |-> guild_id, status |-> status, permission_level |-> permission_level,
     detail |-> ""]

\* lines 1002-1029: POST /guilds, called by the bot without authentication
create_or_update_guild(guild_id, owner_id) ==
    /\ guilds' = [guilds EXCEPT ![guild_id] = Some([owner_id |-> owner_id])]
    /\ UNCHANGED << authorized_users, guild_settings, audit_logs, response >>
    /\ UNCHANGED session_vars
    /\ UNCHANGED lookup_vars

\* lines 57-146
get_guild(current_user, guild_id, dev, member, cached) ==
    /\ LET permission_level == PermissionLevelOf(current_user, guild_id, dev, member, cached)
       IN  response' = IF guilds[guild_id] = None
                       THEN Answer("get_guild", current_user, guild_id, 404, "")
                       ELSE Answer("get_guild", current_user, guild_id, 200, permission_level)
    /\ UNCHANGED << guilds, authorized_users, guild_settings, audit_logs >>
    /\ UNCHANGED session_vars
    /\ UNCHANGED lookup_vars

\* lines 148-218
get_guild_settings(current_user, guild_id) ==
    /\ LET user_id == current_user.user_id
           guild == guilds[guild_id]
       IN  IF guild = None
           THEN /\ response' = Answer("get_guild_settings", current_user, guild_id, 404, "")
                /\ UNCHANGED guild_settings
           ELSE LET is_owner == guild[1].owner_id = user_id
                    is_system == current_user.system
                IN  IF ~is_owner /\ ~is_system /\ AuthorizedUserRow(guild_id, user_id) = None
                    THEN /\ response' = Answer("get_guild_settings", current_user, guild_id, 403, "")
                         /\ UNCHANGED guild_settings
                    ELSE /\ guild_settings' =
                               IF guild_settings[guild_id] = None
                               THEN [guild_settings EXCEPT ![guild_id] = Some(EmptySettings)]
                               ELSE guild_settings
                         /\ response' = Answer("get_guild_settings", current_user, guild_id, 200, "")
    /\ UNCHANGED << guilds, authorized_users, audit_logs >>
    /\ UNCHANGED session_vars
    /\ UNCHANGED lookup_vars

\* lines 292-304: a caller without developer access may not change a level 3 key
RestrictedChange(settings, settings_data) ==
    /\ settings_data.model # None
    /\ (IF settings = None THEN None ELSE settings[1].model) # settings_data.model

\* lines 220-349
update_guild_settings(current_user, guild_id, settings_data, dev, audit_ok) ==
    /\ LET user_id == current_user.user_id
           guild == guilds[guild_id]
           auth_user == AuthorizedUserRow(guild_id, user_id)
           settings == guild_settings[guild_id]
           Refuse(status) ==
               /\ response' = Answer("update_guild_settings", current_user, guild_id, status, "")
               /\ UNCHANGED << guild_settings, audit_logs >>
       IN  IF guild = None THEN Refuse(404)
           ELSE IF guild[1].owner_id # user_id /\ auth_user = None THEN Refuse(403)
           ELSE IF guild[1].owner_id # user_id /\ auth_user[1].permission_level # "admin"
                THEN Refuse(403)
           ELSE IF ~HasDevAccess(user_id, dev) /\ RestrictedChange(settings, settings_data)
                THEN \* lines 301-304: "... modify restricted setting"
                     /\ response' = [Answer("update_guild_settings", current_user, guild_id,
                                             403, "") EXCEPT !.detail = "restricted"]
                     /\ UNCHANGED << guild_settings, audit_logs >>
           ELSE IF ~audit_ok
                THEN \* the INSERT of the AuditLog fails and db.commit() raises
                     /\ response' = [Answer("update_guild_settings", current_user, guild_id, 500, "")
                                        EXCEPT !.detail = "audit"]
                     /\ UNCHANGED << guild_settings, audit_logs >>
           ELSE /\ Len(audit_logs) < MaxAudit
                /\ guild_settings' = [guild_settings EXCEPT ![guild_id] = Some(settings_data)]
                /\ audit_logs' = Append(audit_logs,
                      [guild_id |-> guild_id, user_id |-> user_id, action |-> "UPDATE_SETTINGS"])
                /\ response' = Answer("update_guild_settings", current_user, guild_id, 200, "")
    /\ UNCHANGED << guilds, authorized_users >>
    /\ UNCHANGED session_vars
    /\ UNCHANGED lookup_vars

\* mutant: the row is committed although the audit entry could not be written
add_authorized_user_unlogged(current_user, guild_id, request_user_id, target_found, audit_ok) ==
    /\ LET user_id == current_user.user_id
           guild == guilds[guild_id]
           auth_user == AuthorizedUserRow(guild_id, user_id)
           Refuse(status) ==
               /\ response' = Answer("add_authorized_user", current_user, guild_id, status, "")
               /\ UNCHANGED << authorized_users, audit_logs >>
       IN  IF guild = None THEN Refuse(404)
           ELSE IF guild[1].owner_id # user_id /\ auth_user = None THEN Refuse(403)
           ELSE IF guild[1].owner_id # user_id /\ auth_user[1].permission_level # "admin"
                THEN Refuse(403)
           ELSE IF AuthorizedUserRow(guild_id, request_user_id) # None THEN Refuse(400)
           ELSE IF ~target_found THEN Refuse(500)
           ELSE IF ~audit_ok
                THEN \* the INSERT of the AuditLog fails and db.commit() raises
                     /\ response' = [Answer("add_authorized_user", current_user, guild_id, 500, "")
                                        EXCEPT !.detail = "audit"]
                     /\ authorized_users' = authorized_users \cup
                           {[guild_id |-> guild_id, user_id |-> request_user_id,
                             permission_level |-> "user"]}
                     /\ UNCHANGED audit_logs
           ELSE /\ Len(audit_logs) < MaxAudit
                /\ authorized_users' = authorized_users \cup
                      {[guild_id |-> guild_id, user_id |-> request_user_id,
                        permission_level |-> "user"]}
                /\ audit_logs' = Append(audit_logs,
                      [guild_id |-> guild_id, user_id |-> user_id,
                       action |-> "ADD_AUTHORIZED_USER", details |-> request_user_id])
                /\ response' = Answer("add_authorized_user", current_user, guild_id, 200, "")
    /\ UNCHANGED << guilds, guild_settings >>
    /\ UNCHANGED session_vars
    /\ UNCHANGED lookup_vars

\* lines 421-536; target_found: the user to add is in the users table or
\* discord_client.get_guild_member answers for them (otherwise line 495
\* raises NameError: `logger` is not defined in guilds.py)
add_authorized_user(current_user, guild_id, request_user_id, target_found, audit_ok) ==
    /\ LET user_id == current_user.user_id
           guild == guilds[guild_id]
           auth_user == AuthorizedUserRow(guild_id, user_id)
           Refuse(status) ==
               /\ response' = Answer("add_authorized_user", current_user, guild_id, status, "")
               /\ UNCHANGED << authorized_users, audit_logs >>
       IN  IF guild = None THEN Refuse(404)
           ELSE IF guild[1].owner_id # user_id /\ auth_user = None THEN Refuse(403)
           ELSE IF guild[1].owner_id # user_id /\ auth_user[1].permission_level # "admin"
                THEN Refuse(403)
           ELSE IF AuthorizedUserRow(guild_id, request_user_id) # None THEN Refuse(400)
           ELSE IF ~target_found THEN Refuse(500)
           ELSE IF ~audit_ok
                THEN \* the INSERT of the AuditLog fails and db.commit() raises
                     /\ response' = [Answer("add_authorized_user", current_user, guild_id, 500, "")
                                        EXCEPT !.detail = "audit"]
                     /\ UNCHANGED << authorized_users, audit_logs >>
           ELSE /\ Len(audit_logs) < MaxAudit
                /\ authorized_users' = authorized_users \cup
                      {[guild_id |-> guild_id, user_id |-> request_user_id,
                        permission_level |-> "user"]}
                /\ audit_logs' = Append(audit_logs,
                      [guild_id |-> guild_id, user_id |-> user_id,
                       action |-> "ADD_AUTHORIZED_USER", details |-> request_user_id])
                /\ response' = Answer("add_authorized_user", current_user, guild_id, 200, "")
    /\ UNCHANGED << guilds, guild_settings >>
    /\ UNCHANGED session_vars
    /\ UNCHANGED lookup_vars

\* mutant: the row found is not deleted
remove_authorized_user_kept(current_user, guild_id, target_user_id, audit_ok) ==
    /\ LET user_id == current_user.user_id
           guild == guilds[guild_id]
           auth_user == AuthorizedUserRow(guild_id, user_id)
           target_auth == AuthorizedUserRow(guild_id, target_user_id)
           Refuse(status) ==
               /\ response' = Answer("remove_authorized_user", current_user, guild_id, status, "")
               /\ UNCHANGED << authorized_users, audit_logs >>
       IN  IF guild = None THEN Refuse(404)
           ELSE IF guild[1].owner_id # user_id /\ auth_user = None THEN Refuse(403)
           ELSE IF guild[1].owner_id # user_id /\ auth_user[1].permission_level # "admin"
                THEN Refuse(403)
           ELSE IF target_auth = None THEN Refuse(404)
           ELSE IF target_user_id = guild[1].owner_id THEN Refuse(400)
           ELSE IF ~audit_ok
                THEN \* the INSERT of the AuditLog fails and db.commit() raises
                     /\ response' = [Answer("remove_authorized_user", current_user, guild_id, 500, "")
                                        EXCEPT !.detail = "audit"]
                     /\ UNCHANGED << authorized_users, audit_logs >>
           ELSE /\ Len(audit_logs) < MaxAudit
                /\ UNCHANGED authorized_users
                /\ audit_logs' = Append(audit_logs,
                      [guild_id |-> guild_id, user_id |-> user_id,
                       action |-> "REMOVE_AUTHORIZED_USER", details |-> target_user_id])
                /\ response' = Answer("remove_authorized_user", current_user, guild_id, 200, "")
    /\ UNCHANGED << guilds, guild_settings >>
    /\ UNCHANGED session_vars
    /\ UNCHANGED lookup_vars

\* lines 538-609 (target_user_id is the user_id of the path)
remove_authorized_user(current_user, guild_id, target_user_id, audit_ok) ==
    /\ LET user_id == current_user.user_id
           guild == guilds[guild_id]
           auth_user == AuthorizedUserRow(guild_id, user_id)
           target_auth == AuthorizedUserRow(guild_id, target_user_id)
           Refuse(status) ==
               /\ response' = Answer("remove_authorized_user", current_user, guild_id, status, "")
               /\ UNCHANGED << authorized_users, audit_logs >>
       IN  IF guild = None THEN Refuse(404)
           ELSE IF guild[1].owner_id # user_id /\ auth_user = None THEN Refuse(403)
           ELSE IF guild[1].owner_id # user_id /\ auth_user[1].permission_level # "admin"
                THEN Refuse(403)
           ELSE IF target_auth = None THEN Refuse(404)
           ELSE IF target_user_id = guild[1].owner_id THEN Refuse(400)
           ELSE IF ~audit_ok
                THEN \* the INSERT of the AuditLog fails and db.commit() raises
                     /\ response' = [Answer("remove_authorized_user", current_user, guild_id, 500, "")
                                        EXCEPT !.detail = "audit"]
                     /\ UNCHANGED << authorized_users, audit_logs >>
           ELSE /\ Len(audit_logs) < MaxAudit
                /\ authorized_users' = authorized_users \ {target_auth[1]}
                /\ audit_logs' = Append(audit_logs,
                      [guild_id |-> guild_id, user_id |-> user_id,
                       action |-> "REMOVE_AUTHORIZED_USER", details |-> target_user_id])
                /\ response' = Answer("remove_authorized_user", current_user, guild_id, 200, "")
    /\ UNCHANGED << guilds, guild_settings >>
    /\ UNCHANGED session_vars
    /\ UNCHANGED lookup_vars

\* mutant: reading the log drops the entries of the guild read
get_audit_logs_trimming(current_user, guild_id) ==
    /\ LET user_id == current_user.user_id
           guild == guilds[guild_id]
           auth_user == AuthorizedUserRow(guild_id, user_id)
           status == IF guild = None THEN 404
                     ELSE IF guild[1].owner_id # user_id /\ auth_user = None THEN 403
                     ELSE IF guild[1].owner_id # user_id
                             /\ auth_user[1].permission_level # "admin" THEN 403
                     ELSE 200
       IN  /\ response' = Answer("get_audit_logs", current_user, guild_id, status, "")
           /\ audit_logs' = IF status = 200
                            THEN SelectSeq(audit_logs, LAMBDA log : log.guild_id # guild_id)
                            ELSE audit_logs
    /\ UNCHANGED << guilds, authorized_users, guild_settings >>
    /\ UNCHANGED session_vars
    /\ UNCHANGED lookup_vars

\* lines 778-822
get_audit_logs(current_user, guild_id) ==
    /\ LET user_id == current_user.user_id
           guild == guilds[guild_id]
           auth_user == AuthorizedUserRow(guild_id, user_id)
           status == IF guild = None THEN 404
                     ELSE IF guild[1].owner_id # user_id /\ auth_user = None THEN 403
                     ELSE IF guild[1].owner_id # user_id
                             /\ auth_user[1].permission_level # "admin" THEN 403
                     ELSE 200
       IN  response' = Answer("get_audit_logs", current_user, guild_id, status, "")
    /\ UNCHANGED << guilds, authorized_users, guild_settings, audit_logs >>
    /\ UNCHANGED session_vars
    /\ UNCHANGED lookup_vars

\* the authorized_users rows present when the service starts: at most one
\* row per (guild, user), each of a guild that exists
EarlierAuthorizedUsers(gs) ==
    { rows \in SUBSET [guild_id : GuildIds, user_id : UserIds, permission_level : PermissionLevels] :
        /\ \A r \in rows : gs[r.guild_id] # None
        /\ \A r1, r2 \in rows :
              r1.guild_id = r2.guild_id /\ r1.user_id = r2.user_id => r1 = r2 }

TenantInit ==
    /\ now = StartTime
    /\ sessions = [t \in Tokens |-> None]
    /\ next_token = 1
    /\ issued = 0
    /\ tasks = EmptyBag
    /\ rejected = {}
    /\ guilds \in [GuildIds -> {None} \cup {Some([owner_id |-> o]) : o \in UserIds}]
    /\ authorized_users \in EarlierAuthorizedUsers(guilds)
    /\ guild_settings = [g \in GuildIds |-> None]
    /\ audit_logs = << >>
    /\ response = NoResponse
    /\ LookupIdle

TenantNext ==
    \/ \E g \in GuildIds, o \in UserIds : create_or_update_guild(g, o)
    \/ \E u \in CurrentUsers, g \in GuildIds, dev \in DevLookups, m \in MemberLookups,
          c \in CachedGuilds :
          \* the cache is read only after a failed member lookup, and the
          \* member's roles only against level_2_roles, which is not set here
          /\ c = None \/ m.kind \in {"error", "not_member"}
          /\ m.roles = {}
          /\ get_guild(u, g, dev, m, c)
    \/ \E u \in CurrentUsers, g \in GuildIds : get_guild_settings(u, g)
    \/ \E u \in CurrentUsers, g \in GuildIds, sd \in SettingsBlobs, dev \in DevLookups :
          /\ sd.level_2_roles = None
          /\ \E ok \in BOOLEAN : update_guild_settings(u, g, sd, dev, ok)
    \/ \E u \in CurrentUsers, g \in GuildIds, r \in UserIds, f \in BOOLEAN, ok \in BOOLEAN :
          add_authorized_user(u, g, r, f, ok)
    \/ \E u \in CurrentUsers, g \in GuildIds, r \in UserIds, ok \in BOOLEAN :
          remove_authorized_user(u, g, r, ok)
    \/ \E u \in CurrentUsers, g \in GuildIds : get_audit_logs(u, g)

TenantSpec == TenantInit /\ [][TenantNext]_vars

----------------------------------------------------------------------------
(* api/guilds.py: the handlers that resolve the caller's level on a guild *)

\* mutant: only an authorized_users row gives access, the owner is not looked at
OwnerOrAuthorizedRowOnly(current_user, guild_id) ==
    AuthorizedUserRow(guild_id, current_user.user_id) # None

\* lines 366-379 (also 626-639, 839-852, 875-888): owner, or any
\* authorized_users row of the caller
OwnerOrAuthorized(current_user, guild_id) ==
    \/ guilds[guild_id][1].owner_id = current_user.user_id
    \/ AuthorizedUserRow(guild_id, current_user.user_id) # None

\* lines 663-677 (also 736-750): owner, or an authorized_users row of level admin
OwnerOrAdmin(current_user, guild_id) ==
    LET auth_user == AuthorizedUserRow(guild_id, current_user.user_id)
    IN  \/ guilds[guild_id][1].owner_id = current_user.user_id
        \/ auth_user # None /\ auth_user[1].permission_level = "admin"

\* select(AuthorizedRole).where(AuthorizedRole.guild_id == guild_id)
AuthorizedRolesOf(guild_id) == {ar \in authorized_roles : ar.guild_id = guild_id}

\* read_guild lines 1088-1122 and 1128-1154: the level 2 check, with the
\* answer of the member lookup it makes when level_2_allow_everyone is off
ReadGuildLevel2(guild_id, member) ==
    LET settings == guild_settings[guild_id]
        l2_everyone == IF settings = None THEN TRUE
                       ELSE Get(settings[1].level_2_allow_everyone, TRUE)
        l2_roles == IF settings = None THEN {}
                    ELSE Get(settings[1].level_2_roles, {})
        has_l2_access == \/ l2_everyone
                         \/ member.kind = "member" /\ member.roles \cap l2_roles # {}
    IN  IF has_l2_access THEN [status |-> 200, permission_level |-> "LEVEL_2"]
        ELSE [status |-> 403, permission_level |-> ""]

\* mutant: a matching role record is looked for before the caller's own row
ReadGuildOutcomesRoleFirst(current_user, guild_id, member, member2) ==
    LET user_id == current_user.user_id
        guild == guilds[guild_id]
        auth_user == AuthorizedUserRow(guild_id, user_id)
        matched == {ar \in AuthorizedRolesOf(guild_id) :
                       member.kind = "member" /\ ar.role_id \in member.roles}
    IN  IF guild = None THEN {[status |-> 404, permission_level |-> ""]}
        ELSE IF guild[1].owner_id = user_id
             THEN {[status |-> 200, permission_level |-> "owner"]}
        ELSE IF matched # {}
             THEN {[status |-> 200, permission_level |-> ar.permission_level] : ar \in matched}
        ELSE IF auth_user # None
             THEN {[status |-> 200, permission_level |-> auth_user[1].permission_level]}
        ELSE {ReadGuildLevel2(guild_id, member2)}

\* read_guild lines 1037-1156: the answers the handler can give.  The role
\* records are selected without ORDER BY and the loop stops at the first one
\* the caller holds (lines 1074-1080), so every matching record can be the
\* one used.  member answers the lookup of line 1069, member2 the later one.
ReadGuildOutcomes(current_user, guild_id, member, member2) ==
    LET user_id == current_user.user_id
        guild == guilds[guild_id]
        auth_user == AuthorizedUserRow(guild_id, user_id)
        matched == {ar \in AuthorizedRolesOf(guild_id) :
                       member.kind = "member" /\ ar.role_id \in member.roles}
    IN  IF guild = None THEN {[status |-> 404, permission_level |-> ""]}
        ELSE IF guild[1].owner_id = user_id
             THEN {[status |-> 200, permission_level |-> "owner"]}
        ELSE IF auth_user # None
             THEN {[status |-> 200, permission_level |-> auth_user[1].permission_level]}
        ELSE IF matched # {}
             THEN {[status |-> 200, permission_level |-> ar.permission_level] : ar \in matched}
        ELSE {ReadGuildLevel2(guild_id, member2)}

\* lines 1031-1156
read_guild(current_user, guild_id, member, member2) ==
    /\ \E o \in ReadGuildOutcomes(current_user, guild_id, member, member2) :
          response' = Answer("read_guild", current_user, guild_id, o.status, o.permission_level)
    /\ UNCHANGED << guilds, authorized_users, guild_settings, audit_logs >>
    /\ UNCHANGED << authorized_roles, user_guilds, fetches >>
    /\ UNCHANGED session_vars

\* lines 351-419
get_authorized_users(current_user, guild_id) ==
    /\ response' =
          IF guilds[guild_id] = None
          THEN Answer("get_authorized_users", current_user, guild_id, 404, "")
          ELSE IF ~OwnerOrAuthorized(current_user, guild_id)
               THEN Answer("get_authorized_users", current_user, guild_id, 403, "")
               ELSE Answer("get_authorized_users", current_user, guild_id, 200, "")
    /\ UNCHANGED << guilds, authorized_users, guild_settings, audit_logs >>
    /\ UNCHANGED << authorized_roles, user_guilds, fetches >>
    /\ UNCHANGED session_vars

\* lines 647-718
add_authorized_role(current_user, guild_id, role_id, audit_ok) ==
    /\ LET Refuse(status) ==
               /\ response' = Answer("add_authorized_role", current_user, guild_id, status, "")
               /\ UNCHANGED << authorized_roles, audit_logs >>
       IN  IF guilds[guild_id] = None THEN Refuse(404)
           ELSE IF ~OwnerOrAdmin(current_user, guild_id) THEN Refuse(403)
           ELSE IF role_id = guild_id THEN Refuse(400)
           ELSE IF \E ar \in AuthorizedRolesOf(guild_id) : ar.role_id = role_id THEN Refuse(400)
           ELSE IF ~audit_ok
                THEN \* the INSERT of the AuditLog fails and db.commit() raises
                     /\ response' = [Answer("add_authorized_role", current_user, guild_id, 500, "")
                                        EXCEPT !.detail = "audit"]
                     /\ UNCHANGED << authorized_roles, audit_logs >>
           ELSE /\ Len(audit_logs) < MaxAudit
                /\ authorized_roles' = authorized_roles \cup
                      {[guild_id |-> guild_id, role_id |-> role_id, permission_level |-> "user"]}
                /\ audit_logs' = Append(audit_logs,
                      [guild_id |-> guild_id, user_id |-> current_user.user_id,
                       action |-> "ADD_AUTHORIZED_ROLE"])
                /\ response' = Answer("add_authorized_role", current_user, guild_id, 200, "")
    /\ UNCHANGED << guilds, authorized_users, guild_settings, user_guilds, fetches >>
    /\ UNCHANGED session_vars

\* the authorized_roles rows present when the service starts: at most one
\* row per (guild, role), each of a guild that exists
EarlierAuthorizedRoles(gs) ==
    { rows \in SUBSET [guild_id : GuildIds, role_id : RoleIds, permission_level : PermissionLevels] :
        /\ \A r \in rows : gs[r.guild_id] # None
        /\ \A r1, r2 \in rows :
              r1.guild_id = r2.guild_id /\ r1.role_id = r2.role_id => r1 = r2 }

\* the level 2 settings a guild may have been given
EarlierSettings ==
    {None} \cup {Some(b) : b \in {sb \in SettingsBlobs : sb.model = None}}

ResolveInit ==
    /\ now = StartTime
    /\ sessions = [t \in Tokens |-> None]
    /\ next_token = 1
    /\ issued = 0
    /\ tasks = EmptyBag
    /\ rejected = {}
    /\ guilds \in [GuildIds -> {None} \cup {Some([owner_id |-> o]) : o \in UserIds}]
    /\ authorized_users \in EarlierAuthorizedUsers(guilds)
    /\ authorized_roles \in EarlierAuthorizedRoles(guilds)
    /\ guild_settings \in {gs \in [GuildIds -> EarlierSettings] :
                             \A g \in GuildIds : guilds[g] = None => gs[g] = None}
    /\ audit_logs = << >>
    /\ response = NoResponse
    /\ user_guilds = [u \in UserIds |-> None]
    /\ fetches = {}

ResolveNext ==
    \/ \E u \in CurrentUsers, g \in GuildIds, dev \in DevLookups, m \in MemberLookups,
          c \in CachedGuilds : get_guild(u, g, dev, m, c)
    \/ \E u \in CurrentUsers, g \in GuildIds, m \in MemberLookups, m2 \in MemberLookups :
          read_guild(u, g, m, m2)
    \/ \E u \in CurrentUsers, g \in GuildIds : get_authorized_users(u, g)
    \/ \E u \in CurrentUsers, g \in GuildIds, r \in RoleIds \cup GuildIds :
          \E ok \in BOOLEAN : add_authorized_role(u, g, r, ok)

ResolveSpec == ResolveInit /\ [][ResolveNext]_vars

----------------------------------------------------------------------------
(* Properties of the session lifecycle (checked under Spec) *)

\* the calls of get_current_user waiting in client.post for token t
InFlight(t) == {x \in BagToSet(tasks) : x.pc = "post" /\ x.session_id = t}

\* the instant (naive UTC) at which the credential of a session expires
RecordedExpiry(expires_at) == FromTimestamp(expires_at[1])

\* a session's recorded expiry lies within the safety margin
InMargin(user_data) ==
    /\ user_data.expires_at # None /\ user_data.expires_at[1] # 0
    /\ RecordedExpiry(user_data.expires_at) - now < MarginSeconds

\* C1: for concurrent get_current_user calls carrying the same session token
\* whose credential expires inside the margin, at most one upstream refresh
\* request for that token is in flight at any time.
C1_OneRefreshInFlight ==
    \A t \in Tokens :
        /\ Cardinality(InFlight(t)) <= 1
        /\ \A x \in InFlight(t) : CopiesIn(x, tasks) <= 1

\* C2: when the refresh is rejected as unrecoverable (status 400,
\* invalid_grant), the call that attempted it ends Unauthenticated (401); it
\* never returns the subject's data.
C2_RejectedEndsUnauthenticated ==
    \A x \in BagToSet(tasks) :
        x.pc = "done" /\ x.status_code = 400 => x.result = "401"

\* C3: when the refresh fails transiently (network error, or a 429
\* rate-limit answer), the step in which the call ends leaves the stored
\* session exactly as it was and the call returns the user data.
C3_TransientLeavesSession ==
    [][\A y \in BagToSet(tasks') :
          ( /\ y.pc = "done"
            /\ y.status_code \in {0 - 1, 429}
            /\ CopiesIn(y, tasks') > CopiesIn(y, tasks) )
          => sessions' = sessions /\ y.result = "user"]_vars

\* C4: once the session of a token that was handed out has been deleted, no
\* step makes a session exist under that token again (a code exchange
\* creates its session under a fresh token).
C4_DeletedStaysDeleted ==
    [][\A t \in Tokens :
          t < next_token /\ sessions[t] = None => sessions'[t] = None]_vars

\* C5: after a refresh of an already expired session was answered Invalid
\* (400), the store no longer contains the session and a resolve with that
\* token is Unauthenticated.
C5_RejectedSessionGone ==
    \A t \in rejected :
        /\ sessions[t] = None
        /\ Resolve("bearer", t, TRUE).result = "401"

\* a credential bundle is whole: its access token, refresh token and expiry
\* come from one answer of the identity provider
WholeBundle(user_data) ==
    /\ user_data.access_token = user_data.issued_by
    /\ user_data.refresh_token \in {None, Some(user_data.issued_by)}

\* C6: under any interleaving of concurrent calls, the bundle in the session
\* store and the bundle every call holds or returns is one whole bundle:
\* the triple before the refresh or the triple of one refresh answer.
C6_WholeBundles ==
    /\ \A t \in Tokens : sessions[t] # None => WholeBundle(sessions[t][1])
    /\ \A x \in BagToSet(tasks) : x.user_data # None => WholeBundle(x.user_data[1])
    /\ \A t \in Tokens :
          LET r == Resolve("bearer", t, TRUE)
          IN  r.user_data # None => WholeBundle(r.user_data[1])

\* C6 witness: a refresh has replaced the bundle of a session while another
\* call on the same token is still waiting for its own refresh
C6_Witness ==
    \E x, y \in BagToSet(tasks) :
        /\ x.pc = "done" /\ x.status_code = 200
        /\ y.pc = "post" /\ y.session_id = x.session_id
        /\ sessions[x.session_id] = x.user_data
        /\ x.user_data[1].access_token # y.user_data[1].access_token

\* C7: whenever a refresh overwrites a stored session, the expiry it stores
\* is not earlier than the expiry stored before, whatever expires_in the
\* identity provider answered.
C7_ExpiryNeverDecreases ==
    [][\A t \in Tokens :
          ( /\ sessions[t] # None /\ sessions'[t] # None
            /\ sessions'[t] # sessions[t]
            /\ sessions[t][1].expires_at # None )
          => sessions'[t][1].expires_at[1] >= sessions[t][1].expires_at[1]]_vars

C9_OutageFailsClosed ==
    \A t \in Tokens :
        LET r == Resolve("bearer", t, FALSE)
        IN  r.result = "500" /\ r.user_data = None

\* C9 witness: a refreshed session that resolves to its user while the
\* store is readable, and to the error while it is not
C9_Witness ==
    \E t \in Tokens :
        /\ sessions[t] # None /\ sessions[t][1].access_token > 0
        /\ Resolve("bearer", t, TRUE).result = "user"
        /\ Resolve("bearer", t, FALSE).result = "500"

----------------------------------------------------------------------------
(* Properties of the guild handlers (checked under TenantSpec) *)

\* C10: a caller authenticated with the Bot token is never answered 403 by a
\* guild-scoped operation, and get_guild reports the top level for it,
\* whatever the guild's owner, authorized users and settings are.
C10_SystemNeverForbidden ==
    response.system =>
        /\ response.status # 403
        /\ (response.op = "get_guild" /\ response.status = 200
               => response.permission_level = "ADMIN")

----------------------------------------------------------------------------
(* Part 4: the user_guilds cache written by list_guilds and read by the
   fallback of get_guild.  list_guilds is split at its awaits (cache read,
   Discord answer, setex), so that listings of one user interleave. *)

\* setex(cache_key, 300, ...)
CacheTTL == 300
MaxFetches == 2
SnapshotStep == 100
MaxListing == 1

\* the users whose listings and lookups are followed
ListingUsers == 1..MaxListing

\* level_2_allow_everyone of a guild, with its default
AllowEveryone(guild_id) ==
    IF guild_settings[guild_id] = None THEN TRUE
    ELSE Get(guild_settings[guild_id][1].level_2_allow_everyone, TRUE)

\* level_2_roles of a guild, with its default
AllowedRoles(guild_id) ==
    IF guild_settings[guild_id] = None THEN {}
    ELSE Get(guild_settings[guild_id][1].level_2_roles, {})

NoDev == [ok |-> FALSE, owner_id |-> 0, developers |-> {}]

\* redis.get(f"user_guilds:{user_id}"): Redis drops the key when its time to
\* live is over
CacheRead(user_id) ==
    LET entry == user_guilds[user_id]
    IN  IF entry # None /\ now < entry[1].expires_at THEN Some(entry[1].guilds) ELSE None

\* the levels list_guilds takes from the tables (lines 907-926)
ListedLevel(user_id, guild_id) ==
    LET guild == guilds[guild_id]
        auth_user == AuthorizedUserRow(guild_id, user_id)
    IN  IF guild = None THEN ""
        ELSE IF auth_user # None THEN auth_user[1].permission_level
        ELSE IF guild[1].owner_id = user_id THEN "owner"
        ELSE ""

\* lines 945-992: level 2 access for the guilds of the user's Discord list
ListedLevels(user_id, user_guild_ids) ==
    [g \in GuildIds |->
        IF ListedLevel(user_id, g) # "" THEN ListedLevel(user_id, g)
        ELSE IF g \in user_guild_ids /\ guilds[g] # None /\ AllowEveryone(g)
        THEN "LEVEL_2" ELSE ""]

ListAnswer(user_id, user_guild_ids) ==
    [op |-> "list_guilds", user_id |-> user_id, system |-> FALSE, guild_id |-> 0,
     status |-> 200, permission_level |-> ListedLevels(user_id, user_guild_ids),
     detail |-> ""]

FreeCall == CHOOSE i \in 1..MaxFetches : \A f \in fetches : f.call # i

\* lines 898-943, up to the call of Discord
list_guilds(user_id, redis_up) ==
    /\ IF ~redis_up
       THEN \* redis.get raises: "stick to DB permissions"
            /\ response' = ListAnswer(user_id, {})
            /\ UNCHANGED fetches
       ELSE IF CacheRead(user_id) # None
       THEN /\ response' = ListAnswer(user_id, CacheRead(user_id)[1])
            /\ UNCHANGED fetches
       ELSE /\ Cardinality(fetches) < MaxFetches
            /\ fetches' = fetches \cup {[call |-> FreeCall, user_id |-> user_id,
                                         pc |-> "discord", guilds |-> {}, observed_at |-> 0]}
            /\ UNCHANGED response
    /\ UNCHANGED << guilds, authorized_users, guild_settings, audit_logs >>
    /\ UNCHANGED << authorized_roles, user_guilds >>
    /\ UNCHANGED session_vars

\* line 941: discord_client.get_current_user_guilds answers (ok) or raises
get_current_user_guilds(f, ok, user_guilds_discord) ==
    /\ f.pc = "discord"
    /\ IF ok
       THEN /\ fetches' = (fetches \ {f}) \cup
                             {[f EXCEPT !.pc = "setex", !.guilds = user_guilds_discord,
                                        !.observed_at = now]}
            /\ UNCHANGED response
       ELSE /\ fetches' = fetches \ {f}
            /\ response' = ListAnswer(f.user_id, {})
    /\ UNCHANGED << guilds, authorized_users, guild_settings, audit_logs >>
    /\ UNCHANGED << authorized_roles, user_guilds >>
    /\ UNCHANGED session_vars

\* lines 943-1000: redis.setex and the answer of list_guilds
list_guilds_setex(f, redis_up) ==
    /\ f.pc = "setex"
    /\ fetches' = fetches \ {f}
    /\ IF redis_up
       THEN /\ user_guilds' = [user_guilds EXCEPT ![f.user_id] =
                                 Some([guilds |-> f.guilds, expires_at |-> now + CacheTTL,
                                       observed_at |-> f.observed_at])]
            /\ response' = ListAnswer(f.user_id, f.guilds)
       ELSE /\ response' = ListAnswer(f.user_id, {})
            /\ UNCHANGED user_guilds
    /\ UNCHANGED << guilds, authorized_users, guild_settings, audit_logs >>
    /\ UNCHANGED authorized_roles
    /\ UNCHANGED session_vars

\* mutant: the failure of the Discord lookup is not caught
VerifyPlatformAdminUncaught(current_user, configured, dev) ==
    IF ~configured
    THEN [status |-> 503, detail |-> "Platform not configured"]
    ELSE IF ~dev.ok
    THEN [status |-> 500, detail |-> ""]
    ELSE IF HasDevAccess(current_user.user_id, dev)
    THEN [status |-> 200, detail |-> ""]
    ELSE [status |-> 403, detail |-> "Requires Platform Admin privileges"]

\* deps.py lines 128-168: configured is the truth of DISCORD_GUILD_ID, dev the
\* answer of Discord about the developer guild (or its failure)
VerifyPlatformAdmin(current_user, configured, dev) ==
    IF ~configured
    THEN [status |-> 503, detail |-> "Platform not configured"]
    ELSE IF HasDevAccess(current_user.user_id, dev)
    THEN [status |-> 200, detail |-> ""]
    ELSE [status |-> 403, detail |-> "Requires Platform Admin privileges"]

verify_platform_admin(current_user, configured, dev) ==
    /\ LET o == VerifyPlatformAdmin(current_user, configured, dev)
       IN  response' = [Answer("verify_platform_admin", current_user, 0, o.status, "")
                           EXCEPT !.detail = o.detail]
    /\ UNCHANGED << guilds, authorized_users, guild_settings, audit_logs >>
    /\ UNCHANGED lookup_vars
    /\ UNCHANGED session_vars

SnapshotInit ==
    /\ now = StartTime
    /\ sessions = [t \in Tokens |-> None]
    /\ next_token = 1
    /\ issued = 0
    /\ tasks = EmptyBag
    /\ rejected = {}
    /\ guilds \in [GuildIds -> {Some([owner_id |-> o]) : o \in UserIds}]
    /\ authorized_users = {}
    /\ authorized_roles = {}
    /\ guild_settings \in [GuildIds -> {None, Some([EmptySettings EXCEPT
                                           !.level_2_allow_everyone = Some(FALSE)])}]
    /\ audit_logs = << >>
    /\ response = NoResponse
    /\ user_guilds = [u \in UserIds |-> None]
    /\ fetches = {}

SnapshotNext ==
    \/ \E u \in ListingUsers, up \in BOOLEAN : list_guilds(u, up)
    \/ \E f \in fetches, ok \in BOOLEAN, gl \in SUBSET GuildIds :
          get_current_user_guilds(f, ok, gl)
    \/ \E f \in fetches, up \in BOOLEAN : list_guilds_setex(f, up)
    \/ \E u \in ListingUsers, g \in GuildIds, m \in MemberLookups, up \in BOOLEAN :
          get_guild(SessionUser(u), g, NoDev, m, IF up THEN CacheRead(u) ELSE None)
    \/ \E u \in ListingUsers, g \in GuildIds, m \in MemberLookups, m2 \in MemberLookups :
          read_guild(SessionUser(u), g, m, m2)
    \/ \E u \in ListingUsers, configured \in BOOLEAN, dev \in DevLookups :
          verify_platform_admin(SessionUser(u), configured, dev)
    \/ Tick(SnapshotStep)

SnapshotSpec == SnapshotInit /\ [][SnapshotNext]_vars

----------------------------------------------------------------------------
(* Part 5: add_authorized_user split at its awaits, so that two requests for
   the same target interleave between the "already authorized" check and the
   commit.  The requests in flight are kept in tasks; the rows carry the id
   the table gives them (models.py: id is the only key of authorized_users). *)

\* select(AuthorizedUser).where(guild_id == .., user_id == ..): all the rows
AuthorizedUserRows(guild_id, user_id) ==
    {r \in authorized_users : r.guild_id = guild_id /\ r.user_id = user_id}

\* lines 421-473: the checks of add_authorized_user, up to the await after
\* the "already authorized" check
add_authorized_user_check(current_user, guild_id, request_user_id) ==
    /\ LET user_id == current_user.user_id
           guild == guilds[guild_id]
           auth_rows == AuthorizedUserRows(guild_id, user_id)
           Refuse(status) ==
               /\ response' = Answer("add_authorized_user", current_user, guild_id, status, "")
               /\ UNCHANGED tasks
       IN  IF guild = None THEN Refuse(404)
           ELSE IF guild[1].owner_id # user_id /\ auth_rows = {} THEN Refuse(403)
           ELSE IF guild[1].owner_id # user_id /\ Cardinality(auth_rows) > 1
                THEN Refuse(500)   \* scalar_one_or_none raises MultipleResultsFound
           ELSE IF guild[1].owner_id # user_id
                   /\ \E r \in auth_rows : r.permission_level # "admin" THEN Refuse(403)
           ELSE IF Cardinality(AuthorizedUserRows(guild_id, request_user_id)) > 1
                THEN Refuse(500)
           ELSE IF AuthorizedUserRows(guild_id, request_user_id) # {} THEN Refuse(400)
           ELSE /\ BagCardinality(tasks) < MaxCallers
                /\ tasks' = tasks (+) SetToBag({[op |-> "add_authorized_user",
                                                 current_user |-> current_user,
                                                 guild_id |-> guild_id,
                                                 request_user_id |-> request_user_id]})
                /\ UNCHANGED response
    /\ UNCHANGED << now, sessions, next_token, issued, rejected >>
    /\ UNCHANGED << guilds, authorized_users, guild_settings, audit_logs >>
    /\ UNCHANGED lookup_vars

\* lines 475-536: the stub user, the new row, the audit entry and the commit
add_authorized_user_commit(x, target_found, audit_ok) ==
    /\ tasks' = tasks (-) SetToBag({x})
    /\ IF ~target_found \/ ~audit_ok
       THEN /\ response' = [Answer("add_authorized_user", x.current_user, x.guild_id, 500, "")
                               EXCEPT !.detail = IF target_found THEN "audit" ELSE ""]
            /\ UNCHANGED << authorized_users, audit_logs >>
       ELSE /\ Len(audit_logs) < MaxAudit
            /\ authorized_users' = authorized_users \cup
                  {[id |-> Cardinality(authorized_users) + 1, guild_id |-> x.guild_id,
                    user_id |-> x.request_user_id, permission_level |-> "user"]}
            /\ audit_logs' = Append(audit_logs,
                  [guild_id |-> x.guild_id, user_id |-> x.current_user.user_id,
                   action |-> "ADD_AUTHORIZED_USER", details |-> x.request_user_id])
            /\ response' = Answer("add_authorized_user", x.current_user, x.guild_id, 200, "")
    /\ UNCHANGED << now, sessions, next_token, issued, rejected >>
    /\ UNCHANGED << guilds, guild_settings >>
    /\ UNCHANGED lookup_vars

GrantInit ==
    /\ now = StartTime
    /\ sessions = [t \in Tokens |-> None]
    /\ next_token = 1
    /\ issued = 0
    /\ tasks = EmptyBag
    /\ rejected = {}
    /\ guilds \in [GuildIds -> {None} \cup {Some([owner_id |-> o]) : o \in UserIds}]
    /\ authorized_users = {}
    /\ guild_settings = [g \in GuildIds |-> None]
    /\ audit_logs = << >>
    /\ response = NoResponse
    /\ LookupIdle

GrantNext ==
    \/ \E u \in CurrentUsers, g \in GuildIds, r \in UserIds : add_authorized_user_check(u, g, r)
    \/ \E x \in BagToSet(tasks), f \in BOOLEAN, ok \in BOOLEAN :
          add_authorized_user_commit(x, f, ok)

GrantSpec == GrantInit /\ [][GrantNext]_vars

----------------------------------------------------------------------------
(* Properties of the permission resolution (checked under ResolveSpec) *)

\* the place of a reported level in the order of tiers
TierRank(level) ==
    CASE level = "ADMIN" -> 6
      [] level = "owner" -> 5
      [] level = "admin" -> 4
      [] level = "user" -> 3
      [] level = "LEVEL_2" -> 1
      [] OTHER -> 0

NoMember == [kind |-> "error", roles |-> {}]

\* the level get_guild reports for a caller that is in no Discord guild
ResolvedLevel(current_user, guild_id, dev) ==
    PermissionLevelOf(current_user, guild_id, dev, NoMember, None)

\* the caller is neither platform admin nor owner and has no row of its own
NoDirectRule(current_user, guild_id, dev) ==
    /\ ~current_user.system
    /\ ~check_is_admin(current_user.user_id, dev)
    /\ guilds[guild_id][1].owner_id # current_user.user_id
    /\ AuthorizedUserRow(guild_id, current_user.user_id) = None

\* the role records of the guild for roles the looked-up member holds
MatchedRoles(guild_id, member) ==
    {ar \in AuthorizedRolesOf(guild_id) : member.kind = "member" /\ ar.role_id \in member.roles}

\* C11: a caller whose resolved level is at least that of another caller is
\* allowed on every guild operation the other caller is allowed on (here:
\* reading the authorized users of the guild).
C11_HigherTierNeverForbidden ==
    \A g \in GuildIds, u1 \in CurrentUsers, u2 \in CurrentUsers, dev \in DevLookups :
        ( /\ guilds[g] # None
          /\ TierRank(ResolvedLevel(u1, g, dev)) >= TierRank(ResolvedLevel(u2, g, dev))
          /\ OwnerOrAuthorized(u2, g) )
        => OwnerOrAuthorized(u1, g)

C13_OwnRowBeforeRoles ==
    \A g \in GuildIds, u \in UserIds :
        ( /\ guilds[g] # None
          /\ guilds[g][1].owner_id # u
          /\ AuthorizedUserRow(g, u) # None
          /\ AuthorizedUserRow(g, u)[1].permission_level = "admin" )
        => /\ \A m \in MemberLookups, m2 \in MemberLookups :
                 ReadGuildOutcomes(SessionUser(u), g, m, m2)
                    = {[status |-> 200, permission_level |-> "admin"]}
           /\ \A dev \in DevLookups, m \in MemberLookups, c \in CachedGuilds :
                 ~check_is_admin(u, dev)
                    => PermissionLevelOf(SessionUser(u), g, dev, m, c) = "admin"

\* C13 witness: read_guild answered admin to a caller with an admin row on
\* a guild that also has a role record of level user
C13_Witness ==
    /\ response.op = "read_guild" /\ response.permission_level = "admin"
    /\ \E ar \in AuthorizedRolesOf(response.guild_id) : ar.permission_level = "user"
    /\ AuthorizedUserRow(response.guild_id, response.user_id) # None

C15_MemberOnlyWhenShown ==
    \A g \in GuildIds, u \in UserIds, dev \in DevLookups,
       m \in MemberLookups, m2 \in MemberLookups, c \in CachedGuilds :
        ( /\ guilds[g] # None
          /\ AllowEveryone(g)
          /\ NoDirectRule(SessionUser(u), g, dev)
          /\ MatchedRoles(g, m) = {} )
        => /\ PermissionLevelOf(SessionUser(u), g, dev, m, c) = "LEVEL_2"
                 => m.kind = "member" \/ (c # None /\ g \in c[1])
           /\ [status |-> 200, permission_level |-> "LEVEL_2"]
                    \in ReadGuildOutcomes(SessionUser(u), g, m, m2)
                 => m.kind = "member" \/ m2.kind = "member"

\* C16: with level_2_allow_everyone off, a caller without owner, own-row or
\* role match gets LEVEL_2 if and only if a successful member lookup
\* answers a role among level_2_roles; a failed lookup never gives it,
\* whatever is cached.
C16_RolesRequired ==
    \A g \in GuildIds, u \in UserIds, dev \in DevLookups,
       m \in MemberLookups, m2 \in MemberLookups, c \in CachedGuilds :
        ( /\ guilds[g] # None
          /\ ~AllowEveryone(g)
          /\ NoDirectRule(SessionUser(u), g, dev)
          /\ MatchedRoles(g, m) = {} )
        => /\ PermissionLevelOf(SessionUser(u), g, dev, m, c) =
                 IF m.kind = "member" /\ m.roles \cap AllowedRoles(g) # {}
                 THEN "LEVEL_2" ELSE "PUBLIC"
           /\ ReadGuildOutcomes(SessionUser(u), g, m, m2) =
                 {IF m2.kind = "member" /\ m2.roles \cap AllowedRoles(g) # {}
                  THEN [status |-> 200, permission_level |-> "LEVEL_2"]
                  ELSE [status |-> 403, permission_level |-> ""]}

\* C16 witness: get_guild answered LEVEL_2 on a guild whose
\* level_2_allow_everyone is off, to a caller that is not its owner and has
\* no row of its own
C16_Witness ==
    /\ response.op = "get_guild" /\ response.permission_level = "LEVEL_2"
    /\ ~AllowEveryone(response.guild_id)
    /\ guilds[response.guild_id][1].owner_id # response.user_id
    /\ AuthorizedUserRow(response.guild_id, response.user_id) = None

\* C18: when Discord answers that the caller is not a member of the guild,
\* the caller does not get LEVEL_2, even if the cached guild list of the
\* caller still names the guild.
C18_NotMemberDenied ==
    \A g \in GuildIds, u \in UserIds, dev \in DevLookups, c \in CachedGuilds :
        ( /\ guilds[g] # None
          /\ NoDirectRule(SessionUser(u), g, dev) )
        => PermissionLevelOf(SessionUser(u), g, dev,
                             [kind |-> "not_member", roles |-> {}], c) # "LEVEL_2"

----------------------------------------------------------------------------
(* Properties of the user_guilds cache (checked under SnapshotSpec) *)

\* the cached guild list of the user names the guild and was observed at
\* Discord less than CacheTTL seconds ago
FreshSnapshot(user_id, guild_id) ==
    /\ user_guilds[user_id] # None
    /\ guild_id \in user_guilds[user_id][1].guilds
    /\ now - user_guilds[user_id][1].observed_at < CacheTTL

\* C17: with level_2_allow_everyone on and the member lookup timing out,
\* get_guild reports LEVEL_2 for a caller without a rule of its own exactly
\* when the cache holds a guild list that names the guild and is younger than
\* the 5 minutes of the TTL; an older or absent list gives no access
C17_FreshSnapshotOnly ==
    \A u \in ListingUsers, g \in GuildIds :
       (NoDirectRule(SessionUser(u), g, NoDev) /\ AllowEveryone(g)) =>
          ((PermissionLevelOf(SessionUser(u), g, NoDev, NoMember, CacheRead(u)) = "LEVEL_2")
              <=> FreshSnapshot(u, g))

\* C19: after a get_guild whose member lookup succeeded (it reports LEVEL_2
\* while nothing readable is cached) the cache of that user holds the result
\* of the lookup, observed at the time of the lookup
C19_LookupOverwritesCache ==
    [][(/\ response' # response
        /\ response'.op = "get_guild"
        /\ response'.permission_level = "LEVEL_2"
        /\ CacheRead(response'.user_id) = None)
          => (/\ user_guilds'[response'.user_id] # None
              /\ response'.guild_id \in user_guilds'[response'.user_id][1].guilds
              /\ user_guilds'[response'.user_id][1].observed_at = now)]_vars

\* C20: whatever the interleaving of listings and lookups of one user, the
\* guild list a lookup can read from the cache is never replaced by one that
\* was observed at Discord earlier
C20_ObservationNeverOlder ==
    [][\A u \in ListingUsers :
          (CacheRead(u) # None /\ user_guilds'[u] # None)
             => user_guilds'[u][1].observed_at >= user_guilds[u][1].observed_at]_vars

\* C21: a failure of Discord during get_guild, read_guild, list_guilds or
\* verify_platform_admin is never answered with an error: every answer is an
\* allow (200) or a deny (403, or 404 for an unknown guild); the only 503 is
\* the one of a platform without DISCORD_GUILD_ID, where Discord is not asked
C21_ProviderFailureIsADecision ==
    /\ \/ response.status \in {0, 200, 403, 404}
       \/ response.status = 503 /\ response.detail = "Platform not configured"
    /\ \A u \in ListingUsers, g \in GuildIds, m \in MemberLookups :
          /\ PermissionLevelOf(SessionUser(u), g, NoDev, NoMember, None)
                \in {"PUBLIC", "LEVEL_2", "user", "admin", "owner", "ADMIN"}
          /\ \A o \in ReadGuildOutcomes(SessionUser(u), g, NoMember, NoMember) :
                o.status \in {200, 403, 404}
          /\ VerifyPlatformAdmin(SessionUser(u), TRUE, NoDev).status = 403

\* user 1 owns the developer guild whenever Discord answers, so its 403 is the
\* answer to a failed lookup; a listing was answered after a failed fetch
C21_Witness ==
    /\ response.op = "verify_platform_admin"
    /\ response.user_id = 1
    /\ response.status = 403

\* C23: get_guild and read_guild answer a caller who has no level on the
\* guild with 404, whether the guild exists or not, never with 403 and never
\* with the guild's data; get_authorized_users on an existing guild answers a
\* caller who is neither owner nor authorized with 403
C23_UnknownToOutsiders ==
    /\ response.op = "get_guild"
          => ~(response.status = 200 /\ response.permission_level = "PUBLIC")
    /\ (response.op = "read_guild" /\ ~response.system) => response.status # 403
    /\ \A g \in GuildIds, u \in UserIds :
          ( /\ guilds[g] # None
            /\ ~OwnerOrAuthorized(SessionUser(u), g)
            /\ response.op = "get_authorized_users"
            /\ response.guild_id = g
            /\ response.user_id = u
            /\ ~response.system )
          => response.status = 403

----------------------------------------------------------------------------
(* Properties of the guild tables and the audit log (checked under TenantSpec) *)

\* the last entry of the audit log, if any
LastAudit == IF audit_logs = << >> THEN None ELSE Some(audit_logs[Len(audit_logs)])

\* C22: while a user has an authorized_users row on a guild, get_guild and
\* read_guild report the level of that row (for a user who is neither owner
\* nor platform admin); once remove_authorized_user has committed, the row is
\* gone and both report only what the level 2 settings, the member lookup and
\* the role records give, never the level of the removed row
C22_NoResidualLevel ==
    /\ \A g \in GuildIds, u \in UserIds, m \in MemberLookups :
          (guilds[g] # None /\ guilds[g][1].owner_id # u /\ ~check_is_admin(u, NoDev))
          => LET row == AuthorizedUserRow(g, u)
             IN  IF row # None
                 THEN /\ \A c \in CachedGuilds :
                            PermissionLevelOf(SessionUser(u), g, NoDev, m, c)
                               = row[1].permission_level
                      /\ \A m2 \in MemberLookups :
                            ReadGuildOutcomes(SessionUser(u), g, m, m2) =
                               {[status |-> 200, permission_level |-> row[1].permission_level]}
                 ELSE /\ \A c \in CachedGuilds :
                            PermissionLevelOf(SessionUser(u), g, NoDev, m, c)
                               \in {"PUBLIC", "LEVEL_2"}
                      /\ \A m2 \in MemberLookups :
                          \A o \in ReadGuildOutcomes(SessionUser(u), g, m, m2) :
                            \/ o.status = 403
                            \/ o.permission_level = "LEVEL_2"
                            \/ \E ar \in MatchedRoles(g, m) :
                                  o.permission_level = ar.permission_level
    /\ LastAudit # None =>
          LET log == LastAudit[1]
          IN  /\ log.action = "REMOVE_AUTHORIZED_USER"
                    => AuthorizedUserRow(log.guild_id, log.details) = None
              /\ log.action = "ADD_AUTHORIZED_USER"
                    => AuthorizedUserRow(log.guild_id, log.details) # None

\* a row was added, removed again, and the removed user then asked get_guild
C22_Witness ==
    /\ Len(audit_logs) = 2
    /\ audit_logs[1].action = "ADD_AUTHORIZED_USER"
    /\ audit_logs[2].action = "REMOVE_AUTHORIZED_USER"
    /\ audit_logs[1].details = audit_logs[2].details
    /\ response.op = "get_guild"
    /\ response.user_id = audit_logs[2].details
    /\ response.permission_level \in {"PUBLIC", "LEVEL_2"}

\* the stored value of the restricted key of a guild (None: not stored)
StoredModel(guild_id) ==
    IF guild_settings[guild_id] = None THEN None ELSE guild_settings[guild_id][1].model

\* C30: an update_guild_settings of a caller without developer access that
\* is let through leaves the stored value of a restricted key as it was,
\* also when the request does not hold the key (the request replaces the
\* stored settings_json, lines 308-324)
C30_RestrictedKeyKept ==
    \A g \in GuildIds, settings_data \in SettingsBlobs :
       (guilds[g] # None /\ ~RestrictedChange(guild_settings[g], settings_data))
          => settings_data.model = StoredModel(g)

\* C24: every step that changes the owner of a guild, an authorized_users
\* row, an authorized_roles row or the settings of a guild appends an audit
\* entry in the same step
C24_NoSilentChange ==
    [][(\/ guilds' # guilds
        \/ authorized_users' # authorized_users
        \/ authorized_roles' # authorized_roles
        \/ guild_settings' # guild_settings)
          => /\ Len(audit_logs') = Len(audit_logs) + 1
             /\ SubSeq(audit_logs', 1, Len(audit_logs)) = audit_logs]_vars

\* C26: an authorized_users row, an authorized_roles row or a guild_settings
\* row appears or disappears only in a step of a granting, revoking or
\* settings-updating handler whose caller is the owner of the guild or has an
\* admin row on it when the step is taken
C26_OnlyAuthorizedMutation ==
    [][(\/ authorized_users' # authorized_users
        \/ authorized_roles' # authorized_roles
        \/ \E g \in GuildIds : (guild_settings[g] = None) # (guild_settings'[g] = None))
          => /\ response'.op \in {"update_guild_settings", "add_authorized_user",
                                  "remove_authorized_user", "add_authorized_role",
                                  "remove_authorized_role"}
             /\ ~response'.system
             /\ OwnerOrAdmin(SessionUser(response'.user_id), response'.guild_id)]_vars

\* C25: when the audit entry of a granting, revoking or settings-updating
\* call cannot be written, the call fails and the rows, the settings and the
\* audit log are after it what they were before it
C25_AuditFailureRollsBack ==
    [][(response' # response /\ response'.status = 500 /\ response'.detail = "audit")
          => UNCHANGED << guilds, authorized_users, authorized_roles, guild_settings,
                          audit_logs >>]_vars

\* a removal failed on its audit entry and the row to remove is still there
C25_Witness ==
    /\ response.op = "remove_authorized_user"
    /\ response.status = 500
    /\ response.detail = "audit"
    /\ \E r \in authorized_users : r.guild_id = response.guild_id

\* C27: the audit log only grows: a step leaves it alone or appends entries
\* to it, and no operation changes or removes an entry it holds
C27_AuditWriteOnce ==
    [][/\ Len(audit_logs') >= Len(audit_logs)
       /\ SubSeq(audit_logs', 1, Len(audit_logs)) = audit_logs]_vars

\* the log holds two entries and its reader was answered
C27_Witness ==
    /\ Len(audit_logs) = 2
    /\ response.op = "get_audit_logs"
    /\ response.status = 200

----------------------------------------------------------------------------
(* Property of concurrent grants (checked under GrantSpec) *)

\* C29: the authorized_users table never holds more than one row for a
\* guild and a user, also after two add_authorized_user calls for the same
\* target that both passed the "already authorized" check
C29_OneRowPerUser ==
    \A g \in GuildIds, u \in UserIds : Cardinality(AuthorizedUserRows(g, u)) <= 1

----------------------------------------------------------------------------
TypeOK ==
    /\ now \in StartTime..(StartTime + MaxElapsed)
    /\ next_token \in 1..(MaxTokens + 1)
    /\ issued \in 0..MaxIssued
    /\ BagCardinality(tasks) <= MaxCallers

====
